---- MODULE Spec2Model ----
(***************************************************************************)
(* kitapos-middleware (server.js): the token gate, the role policy and the *)
(* per-handler store/company scoping, over a small relational database.    *)
(*                                                                         *)
(* One client talks to the server, one request at a time.  A request walks *)
(* the Express chain of its route: authenticateToken, requireRole, then    *)
(* the route handler; each of them is one action.  A registration is two   *)
(* actions, split between its existence query and its insert; under        *)
(* RaceSpec a second client registers while the first one's registration   *)
(* is in flight.                                                           *)
(*                                                                         *)
(* Encoding of JavaScript values: ids are positive integers, Undefined (0) *)
(* stands for undefined/null, EmptyString (-1) for the string '' of a      *)
(* blank query parameter; both are falsy.                                  *)
(*                                                                         *)
(* Environment: once a Supabase client exists its queries succeed; the     *)
(* `error` branches of the handlers (500 DB_ERROR and the like) are not    *)
(* taken.  SUPABASE_URL or the service key may be missing (env "missing"); *)
(* JWT_SECRET is set.  Optional body fields the handlers only copy (sku,   *)
(* phone, ...) are absent from the requests.                               *)
(***************************************************************************)
EXTENDS Integers, Sequences, FiniteSets, TLC

\* ---------------------------------------------------------------- bounds
MaxMutations == 1      \* mutating requests (POST/PUT/DELETE on resources) served,
                       \* and user rows edited directly in the database
MaxTicks == 1          \* token lifetimes the clock runs through

MaxCalls == 2          \* getSupabaseClient calls each concurrent caller makes

\* ------------------------------------------------------ program constants
ExpiresIn == 604800    \* '7d' in seconds

Undefined == 0
EmptyString == -1
Truthy(v) == v # Undefined /\ v # EmptyString

JWT_SECRET == "server-secret"

StoreIds == {1, 2}

Roles == {"super_admin", "manager", "cashier"}

\* ----------------------------------------------------------------- state
VARIABLES
  now,                    \* wall clock, seconds
  env,                    \* "ok" | "missing": validateEnvVars() outcome
                          \* ("throws": createClient rejects the URL)
  supabase,               \* "null" | "client"            (module variable)
  initializationPromise,  \* "null" | "pending" | "client" | "failed" (resolved
                          \* to the client / to null)
  users, stores, companies, staff, categories, products, movements, \* tables
  session,                \* the token the client holds (NoToken: none)
  pc,                     \* "idle" | "auth" | "optauth" | "role" | "handler" |
                          \* "insert" (a registration between its two queries) | "done"
  req,                    \* the request in flight
  res,                    \* its response
  trace,                  \* what ran for this request, in order
  mutations,              \* mutating requests received so far
  rival,                  \* a second client's registration in flight
  initialization,         \* initializeSupabase: how far it got, how often it ran
  callers,                \* concurrent getSupabaseClient calls, one per caller
  adjusts                 \* concurrent POST /inventory/adjust requests

db == <<users, stores, companies, staff, categories, products, movements>>
conn == <<env, supabase, initializationPromise>>
boot == <<initialization, callers>>
vars == <<now, conn, db, session, pc, req, res, trace, mutations, rival, boot, adjusts>>

\* -------------------------------------------------------------- passwords
\* bcrypt.hash / bcrypt.compare: a one-way hash, compared by re-hashing.
BcryptHash(p) == <<"bcrypt", p>>
BcryptCompare(p, h) == h = BcryptHash(p)

\* -------------------------------------------------------------- e-mails
\* String.prototype.toLowerCase on the addresses the model uses.
ToLowerCase(e) ==
  CASE e = "Admin@TechCorp.com" -> "admin@techcorp.com"
    [] e = "New@Shop.com" -> "new@shop.com"
    [] OTHER -> e

\* A test that lets every address through.
emailRegexTest_any(e) == TRUE

\* emailRegex.test(e) for /^[^\s@]+@[^\s@]+\.[^\s@]+$/ on the addresses used.
emailRegexTest(e) == e \notin {"", "not-an-email", "a@b"}

\* ----------------------------------------------------------------- tokens
NoPayload == [id |-> Undefined, email |-> "", role |-> "", iat |-> 0, exp |-> 0]

\* HMAC over the payload: who signed what.
Sign(payload, key) == [key |-> key, digest |-> payload]

\* A token service that issues tokens living two lifetimes.
generateToken_twoLifetimes(user, t) ==
  LET payload == [id |-> user.id, email |-> user.email, role |-> user.role,
                  iat |-> t, exp |-> t + 2 * ExpiresIn]
  IN  [payload |-> payload, sig |-> Sign(payload, JWT_SECRET)]

\* generateToken(user): jwt.sign({id, email, role}, JWT_SECRET, {expiresIn: '7d'})
\* at clock time t.  No other field of the user row enters the payload.
generateToken(user, t) ==
  LET payload == [id |-> user.id, email |-> user.email, role |-> user.role,
                  iat |-> t, exp |-> t + ExpiresIn]
  IN  [payload |-> payload, sig |-> Sign(payload, JWT_SECRET)]

GarbageToken == [payload |-> NoPayload, sig |-> Sign(NoPayload, "")]
NoToken == [payload |-> NoPayload, sig |-> Sign(NoPayload, "none")]

\* The nbf claim of a payload; a payload without one is active from time 0.
NotBefore(payload) == IF "nbf" \in DOMAIN payload THEN payload.nbf ELSE 0

\* A verify that checks the signature only.
jwtVerifyError_signatureOnly(token, t) ==
  IF token.sig # Sign(token.payload, JWT_SECRET) THEN "JsonWebTokenError" ELSE ""

\* A verify that checks the expiry before, and instead of, the signature.
jwtVerifyError_expiryOnly(token, t) ==
  IF t >= token.payload.exp THEN "TokenExpiredError" ELSE ""

\* A verify that also looks the token's user up and refuses a token whose
\* user row is inactive or has another role by now.
jwtVerifyError_checksUserRow(token, t) ==
  IF token.sig # Sign(token.payload, JWT_SECRET) THEN "JsonWebTokenError"
  ELSE IF t >= token.payload.exp THEN "TokenExpiredError"
  ELSE IF /\ token.payload.id \in DOMAIN users
          /\ \/ ~users[token.payload.id].is_active
             \/ users[token.payload.id].role # token.payload.role
         THEN "JsonWebTokenError"
  ELSE ""

\* jwt.verify(token, JWT_SECRET, cb): the error name handed to cb, or "" on success.
jwtVerifyError(token, t) ==
  IF token.sig # Sign(token.payload, JWT_SECRET) THEN "JsonWebTokenError"
  ELSE IF NotBefore(token.payload) > t THEN "NotBeforeError"
  ELSE IF t >= token.payload.exp THEN "TokenExpiredError"
  ELSE ""

\* req.user as a handler sees it: the decoded payload; store_id and
\* company_id are read off it and are undefined when the payload lacks them.
NoUser == [id |-> Undefined, email |-> "", role |-> "",
           store_id |-> Undefined, company_id |-> Undefined]
Field(object, key) == IF key \in DOMAIN object THEN object[key] ELSE Undefined
DecodedUser(payload) ==
  [id |-> payload.id, email |-> payload.email, role |-> payload.role,
   store_id |-> Field(payload, "store_id"),
   company_id |-> Field(payload, "company_id")]

\* ---------------------------------------------------------------- routes
\* app.get/post/put/delete registrations, in file order.  GET /sync/all is
\* registered twice; Express dispatches to the first registration.
Routes ==
  { "GET /sync/users", "GET /sync/all", "POST /auth/login", "POST /auth/register",
    "GET /auth/profile", "POST /auth/logout", "POST /stores",
    "GET /companies", "PUT /companies/:companyId", "DELETE /companies/:companyId",
    "GET /staff", "POST /staff", "PUT /staff/:staffId", "DELETE /staff/:staffId",
    "GET /stores", "GET /users",
    "GET /categories", "POST /categories",
    "GET /products", "POST /products", "PUT /products/:productId",
    "DELETE /products/:productId",
    "GET /inventory/movements", "POST /inventory/adjust", "GET /products/stats",
    "POST /companies" }

\* Routes whose chain starts with authenticateToken; POST /auth/logout starts
\* with optionalAuthentication, the other four with the handler.
OptionalAuthRoutes == {"POST /auth/logout"}
AuthenticatedRoutes ==
  Routes \ ({"GET /sync/users", "GET /sync/all", "POST /auth/login", "POST /auth/register"}
             \cup OptionalAuthRoutes)

\* requireRole(roles) of each chain; GET /stores and GET /auth/profile have none.
\* GET /companies is registered twice: the first registration, with
\* requireRole(['super_admin']), is the one Express dispatches to.
RoleCheckedRoutes == AuthenticatedRoutes \ {"GET /stores", "GET /auth/profile"}
RequiredRoles(route) ==
  CASE route \in {"GET /categories", "GET /products", "GET /products/stats"}
         -> {"super_admin", "manager", "cashier"}
    [] route \in {"POST /stores", "GET /companies", "POST /companies",
                  "PUT /companies/:companyId", "DELETE /companies/:companyId"}
         -> {"super_admin"}
    [] OTHER -> {"super_admin", "manager"}

\* Requests that insert or update resource rows when they succeed.
MutatingRoutes ==
  { "POST /staff", "PUT /staff/:staffId", "DELETE /staff/:staffId",
    "POST /categories", "POST /products", "PUT /products/:productId",
    "DELETE /products/:productId", "POST /inventory/adjust", "POST /companies",
    "PUT /companies/:companyId", "DELETE /companies/:companyId", "POST /stores",
    "POST /auth/register" }

\* ---------------------------------------------------------------- tables
\* Rows are addressed by id = position in the table.
SeedUsers ==
  << [email |-> "admin@techcorp.com", password |-> BcryptHash("password123"),
      role |-> "super_admin", store_id |-> Undefined, company_id |-> Undefined,
      is_active |-> TRUE],
     [email |-> "manager@techcorp.com", password |-> BcryptHash("password123"),
      role |-> "manager", store_id |-> 1, company_id |-> 1, is_active |-> TRUE],
     [email |-> "cashier@techcorp.com", password |-> BcryptHash("password123"),
      role |-> "cashier", store_id |-> 2, company_id |-> 1, is_active |-> TRUE],
     [email |-> "floater@techcorp.com", password |-> BcryptHash("password123"),
      role |-> "manager", store_id |-> Undefined, company_id |-> Undefined,
      is_active |-> TRUE],
     [email |-> "former@techcorp.com", password |-> BcryptHash("password123"),
      role |-> "manager", store_id |-> 2, company_id |-> 1, is_active |-> FALSE] >>

SeedStores ==
  << [company_id |-> 1, is_active |-> TRUE], [company_id |-> 2, is_active |-> TRUE] >>
SeedCompanies ==
  << [name |-> "TechCorp", is_active |-> TRUE], [name |-> "Other", is_active |-> TRUE] >>
SeedStaff ==
  << [store_id |-> 1, is_active |-> TRUE, staff_id |-> 101],
     [store_id |-> 2, is_active |-> TRUE, staff_id |-> 102] >>
SeedCategories ==
  << [store_id |-> 1, is_active |-> TRUE], [store_id |-> 2, is_active |-> TRUE] >>
SeedProducts ==
  << [store_id |-> 1, is_active |-> TRUE, stock_quantity |-> 3],
     [store_id |-> 2, is_active |-> TRUE, stock_quantity |-> 3] >>

\* What a response carries of a row: its table, id and tenant columns.
Row(tbl, id, store_id, company_id) ==
  [tbl |-> tbl, id |-> id, store_id |-> store_id, company_id |-> company_id]

UserRows == { Row("users", i, users[i].store_id, users[i].company_id) : i \in DOMAIN users }
StoreRows == { Row("stores", i, i, stores[i].company_id) : i \in DOMAIN stores }
CompanyRows == { Row("companies", i, Undefined, i) : i \in DOMAIN companies }
StaffRows == { Row("staff", i, staff[i].store_id, Undefined) : i \in DOMAIN staff }
CategoryRows == { Row("categories", i, categories[i].store_id, Undefined) : i \in DOMAIN categories }
ProductRows == { Row("products", i, products[i].store_id, Undefined) : i \in DOMAIN products }
MovementRows == { Row("inventory_movements", i, movements[i].store_id, Undefined) : i \in DOMAIN movements }

\* ------------------------------------------------------------ the request
NoInput == [override |-> Undefined, target |-> Undefined, store_id |-> Undefined,
            company_id |-> Undefined, role |-> "", complete |-> FALSE, staff_id |-> Undefined, new_quantity |-> 0,
            name |-> "", email |-> "", password |-> ""]
NoScope == [column |-> "none", value |-> Undefined]
NoRequest == [route |-> "", header |-> <<>>, user |-> NoUser, input |-> NoInput]
\* `user` is the id of the body's user object and `userFields` its keys;
\* `error` is the body's error text where the model tells texts apart and
\* `details` what the body's `details` / `message` key of an error carries.
NoResponse == [status |-> 0, code |-> "", error |-> "", details |-> "",
               rows |-> {}, scope |-> NoScope,
               token |-> NoToken, user |-> Undefined, userFields |-> {},
               requiredRoles |-> {}, userRole |-> ""]

\* The second client's POST /auth/register: where it stands and its response.
NoRival == [pc |-> "idle", email |-> "", checked |-> FALSE,
            status |-> 0, code |-> "", token |-> NoToken, user |-> Undefined]

\* initializeSupabase has not run; no caller has called; no adjust request.
NotInitialized == [phase |-> "none", runs |-> 0, created |-> 0]
Callers == 1..3
NoCaller == [pc |-> "idle", handle |-> "null", early |-> FALSE, calls |-> 0]
Adjusters == 1..2
\* `before` is the stock the request's update overwrote, `turn` the position
\* of its update among the updates, `movement` the id of the row it inserted.
NoAdjust == [pc |-> "idle", product_id |-> Undefined, new_quantity |-> 0,
             previous_stock |-> 0, quantity |-> 0, status |-> 0,
             before |-> 0, turn |-> 0, movement |-> 0]

Init ==
  /\ now = 0
  /\ env \in {"ok", "missing"}
  /\ supabase = "null"
  /\ initializationPromise = "null"
  /\ users = SeedUsers
  /\ stores = SeedStores
  /\ companies = SeedCompanies
  /\ staff = SeedStaff
  /\ categories = SeedCategories
  /\ products = SeedProducts
  /\ movements = <<>>
  /\ session = NoToken
  /\ pc = "idle"
  /\ req = NoRequest
  /\ res = NoResponse
  /\ trace = <<>>
  /\ mutations = 0
  /\ rival = NoRival
  /\ initialization = NotInitialized
  /\ callers = [c \in Callers |-> NoCaller]
  /\ adjusts = [a \in Adjusters |-> NoAdjust]

\* What a client can make of a token it holds without the server key: the
\* payload rewritten to claim super_admin under the old signature, and that
\* payload signed with a key of the client's own.
Escalated(payload) == [payload EXCEPT !.role = "super_admin"]
Tampered(token) ==
  { [token EXCEPT !.payload = Escalated(token.payload)],
    [payload |-> Escalated(token.payload),
     sig |-> Sign(Escalated(token.payload), "client-secret")] }

\* Authorization headers the client sends, already split on ' '.
Headers ==
  { <<>>, <<"Bearer">>, <<"Bearer", GarbageToken>> }
  \cup (IF session = NoToken THEN {}
        ELSE { <<"Bearer", t>> : t \in {session} \cup Tampered(session) })

\* An HTTP request arrives and enters the first function of its route's chain.
\* (The first client sends its next request after the second client's
\* registration, if one is in flight, has been answered.)
Receive ==
  /\ pc = "idle"
  /\ rival.pc = "idle"
  /\ \E route \in Routes, header \in Headers :
       /\ route \in MutatingRoutes => mutations < MaxMutations
       /\ route \notin AuthenticatedRoutes \cup OptionalAuthRoutes => header = <<>>
       /\ req' = [NoRequest EXCEPT !.route = route, !.header = header]
       /\ pc' = IF route \in AuthenticatedRoutes THEN "auth"
                ELSE IF route \in OptionalAuthRoutes THEN "optauth"
                ELSE "handler"
       /\ mutations' = IF route \in MutatingRoutes THEN mutations + 1 ELSE mutations
  /\ res' = NoResponse
  /\ trace' = <<>>
  /\ UNCHANGED <<now, conn, db, session, rival, boot, adjusts>>

\* res.status(s).json({code, ...}): the response is sent, the chain ends.
Reply(status, code) == [NoResponse EXCEPT !.status = status, !.code = code]

\* ------------------------------------------------------- authenticateToken
TokenErrorCode(name) ==
  CASE name = "TokenExpiredError" -> "TOKEN_EXPIRED"
    [] name = "JsonWebTokenError" -> "MALFORMED_TOKEN"
    [] name = "NotBeforeError" -> "TOKEN_NOT_ACTIVE"
    [] OTHER -> "INVALID_TOKEN"

\* authHeader && authHeader.split(' ')[1]
HasToken(header) == Len(header) >= 2

authenticateToken ==
  /\ pc = "auth"
  /\ IF ~HasToken(req.header)
       THEN /\ res' = Reply(401, "NO_TOKEN")
            /\ trace' = trace \o <<"authenticateToken", "respond">>
            /\ pc' = "done"
            /\ req' = req
       ELSE LET token == req.header[2]
                err == jwtVerifyError(token, now)
            IN  IF err # ""
                  THEN /\ res' = Reply(403, TokenErrorCode(err))
                       /\ trace' = trace \o <<"authenticateToken", "respond">>
                       /\ pc' = "done"
                       /\ req' = req
                  ELSE /\ req' = [req EXCEPT !.user = DecodedUser(token.payload)]
                       /\ trace' = trace \o <<"authenticateToken", "next">>
                       /\ pc' = IF req.route \in RoleCheckedRoutes THEN "role" ELSE "handler"
                       /\ res' = res
  /\ UNCHANGED <<now, conn, db, session, mutations, rival, boot, adjusts>>

\* -------------------------------------------------- optionalAuthentication
\* An optional gate that turns a failing token away like the required one.
optionalAuthentication_rejects ==
  /\ pc = "optauth"
  /\ IF HasToken(req.header) /\ jwtVerifyError(req.header[2], now) # ""
       THEN /\ res' = Reply(403, TokenErrorCode(jwtVerifyError(req.header[2], now)))
            /\ trace' = trace \o <<"optionalAuthentication", "respond">>
            /\ pc' = "done"
            /\ req' = req
       ELSE /\ req' = [req EXCEPT !.user =
                         IF ~HasToken(req.header) THEN NoUser
                         ELSE DecodedUser(req.header[2].payload)]
            /\ trace' = trace \o <<"optionalAuthentication", "next">>
            /\ pc' = "handler"
            /\ res' = res
  /\ UNCHANGED <<now, conn, db, session, mutations, rival, boot, adjusts>>

optionalAuthentication ==
  /\ pc = "optauth"
  /\ req' = [req EXCEPT !.user =
               IF ~HasToken(req.header) THEN NoUser
               ELSE IF jwtVerifyError(req.header[2], now) # "" THEN NoUser
               ELSE DecodedUser(req.header[2].payload)]
  /\ trace' = trace \o <<"optionalAuthentication", "next">>
  /\ pc' = "handler"
  /\ UNCHANGED <<now, conn, db, session, res, mutations, rival, boot, adjusts>>

\* ------------------------------------------------------------- requireRole
\* A role policy in which a cashier passes wherever any role is listed.
requireRoleOutcome_cashierPasses(user, roles) ==
  IF user = NoUser THEN [next |-> FALSE, status |-> 401, code |-> "AUTH_REQUIRED"]
  ELSE IF user.role \notin roles /\ user.role # "cashier"
         THEN [next |-> FALSE, status |-> 403, code |-> "INSUFFICIENT_PERMISSIONS"]
  ELSE [next |-> TRUE, status |-> 0, code |-> ""]

\* The decision of requireRole(roles) for req.user = user.
requireRoleOutcome(user, roles) ==
  IF user = NoUser THEN [next |-> FALSE, status |-> 401, code |-> "AUTH_REQUIRED"]
  ELSE IF user.role \notin roles
         THEN [next |-> FALSE, status |-> 403, code |-> "INSUFFICIENT_PERMISSIONS"]
  ELSE [next |-> TRUE, status |-> 0, code |-> ""]

requireRole ==
  /\ pc = "role"
  /\ LET roles == RequiredRoles(req.route)
         out == requireRoleOutcome(req.user, roles)
     IN  IF out.next
           THEN /\ trace' = trace \o <<"requireRole", "next">>
                /\ pc' = "handler"
                /\ res' = res
           ELSE /\ res' = [Reply(out.status, out.code) EXCEPT
                             !.requiredRoles = IF out.code = "INSUFFICIENT_PERMISSIONS"
                                                 THEN roles ELSE {},
                             !.userRole = IF out.code = "INSUFFICIENT_PERMISSIONS"
                                            THEN req.user.role ELSE ""]
                /\ trace' = trace \o <<"requireRole", "respond">>
                /\ pc' = "done"
  /\ UNCHANGED <<now, conn, db, session, req, mutations, rival, boot, adjusts>>

\* ------------------------------------------------------- getSupabaseClient
\* What `await getSupabaseClient()` yields: the cached client, else what the
\* initialisation promise resolves to; initializeSupabase returns null when
\* validateEnvVars() fails.  The seed rows are the demo data it would insert.
getSupabaseClient ==
  IF supabase = "client" THEN "client"
  ELSE IF initializationPromise # "null"
         THEN (IF initializationPromise = "client" THEN "client" ELSE "null")
  ELSE IF env = "ok" THEN "client" ELSE "null"

\* Its effect on the two module variables.
CallGetSupabaseClient ==
  /\ supabase' = IF getSupabaseClient = "client" THEN "client" ELSE supabase
  /\ initializationPromise' =
       IF supabase = "client" \/ initializationPromise # "null"
         THEN initializationPromise
         ELSE (IF env = "ok" THEN "client" ELSE "failed")
  /\ env' = env

\* The handler has sent its response.
Finish(r, events) ==
  /\ res' = r
  /\ trace' = trace \o <<"handler">> \o events
  /\ pc' = "done"

Unavailable == Reply(503, "SERVICE_UNAVAILABLE")

\* ------------------------------------------------------------ read scopes
Equals(column, value) == [column |-> column, value |-> value]

\* query = query.eq(column, value) over the rows of a select.
Matches(scope, row) ==
  CASE scope.column = "none" -> TRUE
    [] scope.column = "store_id" -> row.store_id = scope.value
    [] scope.column = "company_id" -> row.company_id = scope.value
    [] scope.column = "id" -> row.id = scope.value

\* A staff scope that drops the super_admin's store_id override.
staffScope_noOverride(user, store_id) ==
  IF user.role = "manager" /\ Truthy(user.store_id) THEN Equals("store_id", user.store_id)
  ELSE NoScope

\* GET /staff, "Apply filtering based on user role"
staffScope(user, store_id) ==
  IF user.role = "manager" /\ Truthy(user.store_id) THEN Equals("store_id", user.store_id)
  ELSE IF user.role = "super_admin" /\ Truthy(store_id) THEN Equals("store_id", store_id)
  ELSE NoScope

\* GET /stores
storesScope(user, company_id) ==
  IF user.role = "super_admin"
    THEN (IF Truthy(company_id) THEN Equals("company_id", company_id) ELSE NoScope)
  ELSE IF user.role = "manager"
    THEN (IF Truthy(user.company_id) THEN Equals("company_id", user.company_id)
          ELSE IF Truthy(user.store_id) THEN Equals("id", user.store_id)
          ELSE NoScope)
  ELSE IF Truthy(user.store_id) THEN Equals("id", user.store_id)
  ELSE NoScope

\* A categories scope that honours the store_id parameter for every role.
categoriesScope_anyRoleOverrides(user, store_id) ==
  IF user.role = "manager" /\ Truthy(user.store_id) THEN Equals("store_id", user.store_id)
  ELSE IF user.role = "cashier" /\ Truthy(user.store_id) THEN Equals("store_id", user.store_id)
  ELSE IF Truthy(store_id) THEN Equals("store_id", store_id)
  ELSE NoScope

\* GET /categories
categoriesScope(user, store_id) ==
  IF user.role = "manager" /\ Truthy(user.store_id) THEN Equals("store_id", user.store_id)
  ELSE IF user.role = "cashier" /\ Truthy(user.store_id) THEN Equals("store_id", user.store_id)
  ELSE IF user.role = "super_admin" /\ Truthy(store_id) THEN Equals("store_id", store_id)
  ELSE NoScope

\* GET /products
productsScope(user, store_id) ==
  IF user.role = "manager" /\ Truthy(user.store_id) THEN Equals("store_id", user.store_id)
  ELSE IF user.role = "cashier" /\ Truthy(user.store_id) THEN Equals("store_id", user.store_id)
  ELSE IF user.role = "super_admin" /\ Truthy(store_id) THEN Equals("store_id", store_id)
  ELSE NoScope

\* GET /inventory/movements
movementsScope(user, store_id) ==
  IF user.role = "manager" /\ Truthy(user.store_id) THEN Equals("store_id", user.store_id)
  ELSE NoScope

\* GET /products/stats: rpc(..., { store_filter: req.user.store_id || null })
statsScope(user, store_id) ==
  IF Truthy(user.store_id) THEN Equals("store_id", user.store_id) ELSE NoScope

\* GET /users: role and active filters only, none on store or company.
usersScope(user, store_id) == NoScope

\* store_id / company_id query parameters a client may send.
Overrides == {Undefined, EmptyString} \cup StoreIds

Active(table, rows) == { r \in rows : table[r.id].is_active }

\* A listing handler: select from the table, narrow by the scope, respond.
List(route, rows, scope) ==
  /\ pc = "handler"
  /\ req.route = route
  /\ IF getSupabaseClient = "null"
       THEN Finish(Unavailable, <<"getSupabaseClient", "respond">>)
       ELSE Finish([Reply(200, "") EXCEPT !.rows = { r \in rows : Matches(scope, r) },
                                          !.scope = scope],
                   <<"getSupabaseClient", "db", "respond">>)
  /\ CallGetSupabaseClient
  /\ UNCHANGED <<now, db, session, mutations, rival, boot, adjusts>>

WithOverride(q) == req' = [req EXCEPT !.input = [NoInput EXCEPT !.override = q]]

GetSyncUsers == List("GET /sync/users", UserRows, NoScope) /\ req' = req
GetSyncAll == List("GET /sync/all", UserRows, NoScope) /\ req' = req

GetStaff ==
  \E q \in Overrides :
    List("GET /staff", Active(staff, StaffRows), staffScope(req.user, q)) /\ WithOverride(q)
GetCompanies == List("GET /companies", Active(companies, CompanyRows), NoScope) /\ req' = req
GetStores ==
  \E q \in Overrides :
    List("GET /stores", Active(stores, StoreRows), storesScope(req.user, q)) /\ WithOverride(q)
GetUsers ==
  \E q \in Overrides :
    List("GET /users", UserRows, usersScope(req.user, q)) /\ WithOverride(q)
GetCategories ==
  \E q \in Overrides :
    List("GET /categories", Active(categories, CategoryRows), categoriesScope(req.user, q))
      /\ WithOverride(q)
GetProducts ==
  \E q \in Overrides :
    List("GET /products", Active(products, ProductRows), productsScope(req.user, q))
      /\ WithOverride(q)
GetInventoryMovements ==
  \E q \in Overrides :
    List("GET /inventory/movements", MovementRows, movementsScope(req.user, q))
      /\ WithOverride(q)
GetProductsStats ==
  \E q \in Overrides :
    List("GET /products/stats", Active(products, ProductRows), statsScope(req.user, q))
      /\ WithOverride(q)

\* ------------------------------------------------------- POST /auth/login
\* A JSON number in the place of the address.
NumberEmail == "123"
IsString(e) == e # NumberEmail

LoginEmails == {"", "admin@techcorp.com", "Admin@TechCorp.com", "manager@techcorp.com",
                "cashier@techcorp.com", "floater@techcorp.com", "former@techcorp.com",
                "nobody@techcorp.com", "new@shop.com", NumberEmail}
\* The 500 of the catch block, with the exception's message.
InternalError ==
  [Reply(500, "INTERNAL_ERROR") EXCEPT !.details = "error.message"]

LoginPasswords == {"", "password123", "letmein"}

\* The demoUsers table of the fallback branch (no database client).
demoUsers ==
  << [id |-> 1, email |-> "admin@techcorp.com", role |-> "super_admin"],
     [id |-> 2, email |-> "manager@techcorp.com", role |-> "manager"],
     [id |-> 3, email |-> "cashier@techcorp.com", role |-> "cashier"] >>

\* select('*').eq('email', e).eq('is_active', true).single(): the id of the
\* one matching row, Undefined when there is not exactly one.
FindActiveUser(e) ==
  LET ids == { i \in DOMAIN users : users[i].email = e /\ users[i].is_active }
  IN  IF Cardinality(ids) = 1 THEN CHOOSE i \in ids : TRUE ELSE Undefined

\* The keys of a row of select('*') on users.
UserColumns == {"id"} \cup DOMAIN SeedUsers[1]

\* A readout that hands the whole row back.
WithoutPassword_wholeRow(fields) == fields

\* const { password: _, ...userWithoutPassword } = user
WithoutPassword(fields) == fields \ {"password"}

\* The 401 of a login whose e-mail matches no active row.
UserNotFound_revealing == Reply(404, "USER_NOT_FOUND")
UserNotFound ==
  [Reply(401, "INVALID_CREDENTIALS") EXCEPT !.error = "Invalid email or password"]

\* The 401 of a login whose password does not match the row's hash.
InvalidPassword ==
  [Reply(401, "INVALID_CREDENTIALS") EXCEPT !.error = "Invalid email or password"]

\* The 401 of the fallback branch, for either cause.
InvalidFallback ==
  [Reply(401, "INVALID_CREDENTIALS") EXCEPT
     !.error = "Invalid email or password (fallback mode)"]

\* The `user` object of a selected row: the row with its id.
UserObject(i) ==
  [id |-> i, email |-> users[i].email, role |-> users[i].role,
   store_id |-> users[i].store_id, company_id |-> users[i].company_id]

PostAuthLogin ==
  /\ pc = "handler"
  /\ req.route = "POST /auth/login"
  /\ \E email \in LoginEmails, password \in LoginPasswords :
       /\ req' = [req EXCEPT !.input = [NoInput EXCEPT !.email = email,
                                                       !.password = password]]
       /\ IF email = "" \/ password = ""
            THEN /\ Finish(Reply(400, "MISSING_CREDENTIALS"), <<"respond">>)
                 /\ UNCHANGED conn
          ELSE IF ~IsString(email)
            THEN /\ Finish(InternalError, <<"getSupabaseClient", "respond">>)
                 /\ CallGetSupabaseClient
          ELSE IF getSupabaseClient = "null"
            THEN LET ids == { i \in DOMAIN demoUsers :
                                demoUsers[i].email = ToLowerCase(email) }
                 IN  /\ IF ids # {} /\ password = "password123"
                          THEN LET user == demoUsers[CHOOSE i \in ids : TRUE]
                               IN  Finish([Reply(200, "") EXCEPT
                                             !.token = generateToken(user, now),
                                             !.user = user.id,
                                             !.userFields = {"id", "name", "role", "email"}],
                                          <<"getSupabaseClient", "respond">>)
                          ELSE Finish(InvalidFallback,
                                      <<"getSupabaseClient", "respond">>)
                     /\ CallGetSupabaseClient
          ELSE LET id == FindActiveUser(ToLowerCase(email))
               IN  /\ IF id = Undefined
                        THEN Finish(UserNotFound,
                                    <<"getSupabaseClient", "db", "respond">>)
                      ELSE IF ~BcryptCompare(password, users[id].password)
                        THEN Finish(InvalidPassword,
                                    <<"getSupabaseClient", "db", "respond">>)
                      ELSE Finish([Reply(200, "") EXCEPT
                                     !.token = generateToken(UserObject(id), now),
                                     !.user = id,
                                     !.userFields = WithoutPassword(UserColumns)],
                                  <<"getSupabaseClient", "db", "db", "respond">>)
                   /\ CallGetSupabaseClient
  /\ UNCHANGED <<now, db, session, mutations, rival, boot, adjusts>>

\* store_id / company_id of a JSON body: absent or an id.
BodyStores == {Undefined} \cup StoreIds

\* ---------------------------------------------------- POST /auth/register
RegisterEmails == {"", "not-an-email", "Admin@TechCorp.com", "New@Shop.com"}
RegisterPasswords == {"", "abc12", "password123"}
RegisterNames == {"", "Ann"}
RegisterRoles == {"", "super_admin"}

\* A registration that gives every new user the default role.
StoredRole_alwaysDefault(role) == "cashier"

\* The role column of an inserted row: the supplied role, the column default
\* ('cashier') when the body has none.
StoredRole(role) == IF role = "" THEN "cashier" ELSE role

\* .eq('email', email.toLowerCase()).single(): is there a row with the address?
existingUser(email) == \E i \in DOMAIN users : users[i].email = ToLowerCase(email)

\* An insert into a users table that has no unique constraint.
insertError_noConstraint(email) == ""

\* insertError.code of the insert: users.email is UNIQUE, a second row with the
\* same address is refused with 23505.
insertError(email) == IF existingUser(email) THEN "23505" ELSE ""

\* The inserted row, and the user object selected back from it.
NewUserRow(email, password, role) ==
  [email |-> ToLowerCase(email), password |-> BcryptHash(password),
   role |-> StoredRole(role), store_id |-> Undefined,
   company_id |-> Undefined, is_active |-> TRUE]
NewUser(id, row) == [id |-> id, email |-> row.email, role |-> row.role]
RegisteredFields == {"id", "email", "name", "role", "phone", "is_active", "created_at"}

\* Validation, getSupabaseClient and the existence query.
PostAuthRegister ==
  /\ pc = "handler"
  /\ req.route = "POST /auth/register"
  /\ \E email \in RegisterEmails, password \in RegisterPasswords,
        name \in RegisterNames, role \in RegisterRoles, store_id \in BodyStores :
       /\ req' = [req EXCEPT !.input = [NoInput EXCEPT !.email = email,
                     !.password = password, !.name = name, !.role = role,
                     !.store_id = store_id]]
       /\ IF email = "" \/ password = "" \/ name = ""
            THEN /\ Finish(Reply(400, "MISSING_FIELDS"), <<"respond">>)
                 /\ UNCHANGED conn
          ELSE IF ~emailRegexTest(email)
            THEN /\ Finish(Reply(400, "INVALID_EMAIL"), <<"respond">>)
                 /\ UNCHANGED conn
          ELSE IF Len(password) < 6
            THEN /\ Finish(Reply(400, "WEAK_PASSWORD"), <<"respond">>)
                 /\ UNCHANGED conn
          ELSE IF getSupabaseClient = "null"
            THEN /\ Finish(Unavailable, <<"getSupabaseClient", "respond">>)
                 /\ CallGetSupabaseClient
          ELSE IF existingUser(email)
            THEN /\ Finish(Reply(409, "USER_EXISTS"),
                           <<"getSupabaseClient", "db", "respond">>)
                 /\ CallGetSupabaseClient
          ELSE /\ pc' = "insert"
               /\ res' = res
               /\ trace' = trace \o <<"handler", "getSupabaseClient", "db">>
               /\ CallGetSupabaseClient
  /\ UNCHANGED <<now, db, session, mutations, rival, boot, adjusts>>

\* bcrypt.hash, the insert and the response.
PostAuthRegisterInsert ==
  /\ pc = "insert"
  /\ pc' = "done"
  /\ IF insertError(req.input.email) = "23505"
       THEN /\ res' = Reply(409, "USER_EXISTS")
            /\ trace' = trace \o <<"db", "respond">>
            /\ users' = users
       ELSE LET id == Len(users) + 1
                row == NewUserRow(req.input.email, req.input.password, req.input.role)
            IN  /\ users' = Append(users, row)
                /\ res' = [Reply(201, "") EXCEPT
                             !.token = generateToken(NewUser(id, row), now),
                             !.user = id, !.userFields = RegisteredFields]
                /\ trace' = trace \o <<"db", "respond">>
  /\ UNCHANGED <<now, conn, stores, companies, staff, categories, products, movements,
                 session, req, mutations, rival, boot, adjusts>>

\* ------------------------------------------ a concurrent POST /auth/register
\* A second client registers while the first client's registration is in
\* flight; its body passes the three validations.
RivalEmails == {"New@Shop.com", "Admin@TechCorp.com"}

RivalRegister ==
  /\ rival.pc = "idle"
  /\ pc \in {"handler", "insert"} /\ req.route = "POST /auth/register"
  /\ \E email \in RivalEmails :
       rival' =
         IF getSupabaseClient = "null"
           THEN [NoRival EXCEPT !.pc = "done", !.email = email,
                                !.status = 503, !.code = "SERVICE_UNAVAILABLE"]
         ELSE IF existingUser(email)
           THEN [NoRival EXCEPT !.pc = "done", !.email = email,
                                !.status = 409, !.code = "USER_EXISTS"]
         ELSE [NoRival EXCEPT !.pc = "checked", !.email = email, !.checked = TRUE]
  /\ CallGetSupabaseClient
  /\ UNCHANGED <<now, db, session, pc, req, res, trace, mutations, boot, adjusts>>

RivalRegisterInsert ==
  /\ rival.pc = "checked"
  /\ IF insertError(rival.email) = "23505"
       THEN /\ rival' = [rival EXCEPT !.pc = "done", !.status = 409,
                                      !.code = "USER_EXISTS"]
            /\ users' = users
       ELSE LET id == Len(users) + 1
                row == NewUserRow(rival.email, "password123", "")
            IN  /\ users' = Append(users, row)
                /\ rival' = [rival EXCEPT !.pc = "done", !.status = 201,
                               !.token = generateToken(NewUser(id, row), now),
                               !.user = id]
  /\ UNCHANGED <<now, conn, stores, companies, staff, categories, products, movements,
                 session, pc, req, res, trace, mutations, boot, adjusts>>

\* The second client has read its response.
RivalComplete ==
  /\ rival.pc = "done"
  /\ rival' = NoRival
  /\ UNCHANGED <<now, conn, db, session, pc, req, res, trace, mutations, boot, adjusts>>

\* ------------------------------------------------------- GET /auth/profile
GetAuthProfile ==
  /\ pc = "handler"
  /\ req.route = "GET /auth/profile"
  /\ IF getSupabaseClient = "null"
       THEN Finish([Reply(200, "") EXCEPT !.user = req.user.id,
                      !.userFields = {"id", "email", "role", "iat", "exp"}],
                   <<"getSupabaseClient", "respond">>)
     ELSE IF req.user.id \notin DOMAIN users
       THEN Finish(Reply(404, "USER_NOT_FOUND"), <<"getSupabaseClient", "db", "respond">>)
     ELSE Finish([Reply(200, "") EXCEPT !.user = req.user.id,
                    !.userFields = {"id", "email", "name", "role", "phone",
                                    "is_active", "created_at", "last_login"}],
                 <<"getSupabaseClient", "db", "respond">>)
  /\ CallGetSupabaseClient
  /\ UNCHANGED <<now, db, session, req, mutations, rival, boot, adjusts>>

\* ------------------------------------------------------- POST /auth/logout
PostAuthLogout ==
  /\ pc = "handler"
  /\ req.route = "POST /auth/logout"
  /\ Finish(Reply(200, "LOGOUT_SUCCESS"), <<"respond">>)
  /\ UNCHANGED <<now, conn, db, session, req, mutations, rival, boot, adjusts>>

\* ------------------------------------------------------ creating handlers

\* "Validate store access for managers"
StoreAccessDenied(user, store_id) ==
  user.role = "manager" /\ Truthy(user.store_id) /\ store_id # user.store_id

Denied == Reply(403, "STORE_ACCESS_DENIED")
Created(tbl, id, store_id) ==
  [Reply(201, "") EXCEPT !.rows = {Row(tbl, id, store_id, Undefined)}]

NewStaffIds == {101, 103}

PostStaff ==
  /\ pc = "handler"
  /\ req.route = "POST /staff"
  /\ \E store_id \in BodyStores, complete \in BOOLEAN, staff_id \in NewStaffIds :
       /\ req' = [req EXCEPT !.input = [NoInput EXCEPT !.store_id = store_id,
                                 !.complete = complete, !.staff_id = staff_id]]
       /\ IF ~complete \/ ~Truthy(store_id)
            THEN /\ Finish(Reply(400, "MISSING_FIELDS"), <<"respond">>)
                 /\ UNCHANGED <<conn, staff>>
          ELSE IF StoreAccessDenied(req.user, store_id)
            THEN /\ Finish(Denied, <<"respond">>)
                 /\ UNCHANGED <<conn, staff>>
          ELSE IF getSupabaseClient = "null"
            THEN /\ Finish(Unavailable, <<"getSupabaseClient", "respond">>)
                 /\ CallGetSupabaseClient
                 /\ UNCHANGED staff
          ELSE IF \E i \in DOMAIN staff : staff[i].staff_id = staff_id /\ staff[i].is_active
            THEN /\ Finish(Reply(409, "STAFF_ID_EXISTS"),
                           <<"getSupabaseClient", "db", "respond">>)
                 /\ CallGetSupabaseClient
                 /\ UNCHANGED staff
          ELSE /\ staff' = Append(staff, [store_id |-> store_id, is_active |-> TRUE,
                                          staff_id |-> staff_id])
               /\ Finish(Created("staff", Len(staff) + 1, store_id),
                         <<"getSupabaseClient", "db", "db", "respond">>)
               /\ CallGetSupabaseClient
  /\ UNCHANGED <<now, users, stores, companies, categories, products, movements,
                 session, mutations, rival, boot, adjusts>>

PostCategories ==
  /\ pc = "handler"
  /\ req.route = "POST /categories"
  /\ \E store_id \in BodyStores, complete \in BOOLEAN :
       /\ req' = [req EXCEPT !.input = [NoInput EXCEPT !.store_id = store_id,
                                                       !.complete = complete]]
       /\ IF ~complete \/ ~Truthy(store_id)
            THEN /\ Finish(Reply(400, "MISSING_FIELDS"), <<"respond">>)
                 /\ UNCHANGED <<conn, categories>>
          ELSE IF StoreAccessDenied(req.user, store_id)
            THEN /\ Finish(Denied, <<"respond">>)
                 /\ UNCHANGED <<conn, categories>>
          ELSE IF getSupabaseClient = "null"
            THEN /\ Finish(Unavailable, <<"getSupabaseClient", "respond">>)
                 /\ CallGetSupabaseClient
                 /\ UNCHANGED categories
          ELSE /\ categories' = Append(categories, [store_id |-> store_id,
                                                    is_active |-> TRUE])
               /\ Finish(Created("categories", Len(categories) + 1, store_id),
                         <<"getSupabaseClient", "db", "respond">>)
               /\ CallGetSupabaseClient
  /\ UNCHANGED <<now, users, stores, companies, staff, products, movements,
                 session, mutations, rival, boot, adjusts>>

PostProducts ==
  /\ pc = "handler"
  /\ req.route = "POST /products"
  /\ \E store_id \in BodyStores, complete \in BOOLEAN :
       /\ req' = [req EXCEPT !.input = [NoInput EXCEPT !.store_id = store_id,
                                                       !.complete = complete]]
       /\ IF ~complete \/ ~Truthy(store_id)
            THEN /\ Finish(Reply(400, "MISSING_FIELDS"), <<"respond">>)
                 /\ UNCHANGED <<conn, products>>
          ELSE IF StoreAccessDenied(req.user, store_id)
            THEN /\ Finish(Denied, <<"respond">>)
                 /\ UNCHANGED <<conn, products>>
          ELSE IF getSupabaseClient = "null"
            THEN /\ Finish(Unavailable, <<"getSupabaseClient", "respond">>)
                 /\ CallGetSupabaseClient
                 /\ UNCHANGED products
          ELSE /\ products' = Append(products, [store_id |-> store_id, is_active |-> TRUE,
                                                stock_quantity |-> 0])
               /\ Finish(Created("products", Len(products) + 1, store_id),
                         <<"getSupabaseClient", "db", "respond">>)
               /\ CallGetSupabaseClient
  /\ UNCHANGED <<now, users, stores, companies, staff, categories, movements,
                 session, mutations, rival, boot, adjusts>>

NewCompanyNames == {"TechCorp", "NewCo"}

PostCompanies ==
  /\ pc = "handler"
  /\ req.route = "POST /companies"
  /\ \E name \in NewCompanyNames, complete \in BOOLEAN :
       /\ req' = [req EXCEPT !.input = [NoInput EXCEPT !.complete = complete,
                                                       !.name = name]]
       /\ IF ~complete
            THEN /\ Finish(Reply(400, "MISSING_FIELDS"), <<"respond">>)
                 /\ UNCHANGED <<conn, companies>>
          ELSE IF getSupabaseClient = "null"
            THEN /\ Finish(Unavailable, <<"getSupabaseClient", "respond">>)
                 /\ CallGetSupabaseClient
                 /\ UNCHANGED companies
          ELSE IF \E i \in DOMAIN companies :
                    companies[i].name = name /\ companies[i].is_active
            THEN /\ Finish(Reply(409, "COMPANY_EXISTS"),
                           <<"getSupabaseClient", "db", "respond">>)
                 /\ CallGetSupabaseClient
                 /\ UNCHANGED companies
          ELSE /\ companies' = Append(companies, [name |-> name, is_active |-> TRUE])
               /\ Finish([Reply(201, "") EXCEPT
                            !.rows = {Row("companies", Len(companies) + 1, Undefined,
                                          Len(companies) + 1)}],
                         <<"getSupabaseClient", "db", "db", "respond">>)
               /\ CallGetSupabaseClient
  /\ UNCHANGED <<now, users, stores, staff, categories, products, movements,
                 session, mutations, rival, boot, adjusts>>

PostStores ==
  /\ pc = "handler"
  /\ req.route = "POST /stores"
  /\ \E company_id \in BodyStores, complete \in BOOLEAN :
       /\ req' = [req EXCEPT !.input = [NoInput EXCEPT !.company_id = company_id,
                                                       !.complete = complete]]
       /\ IF ~complete \/ ~Truthy(company_id)
            THEN /\ Finish(Reply(400, "MISSING_FIELDS"), <<"respond">>)
                 /\ UNCHANGED <<conn, stores>>
          ELSE IF getSupabaseClient = "null"
            THEN /\ Finish(Unavailable, <<"getSupabaseClient", "respond">>)
                 /\ CallGetSupabaseClient
                 /\ UNCHANGED stores
          ELSE /\ stores' = Append(stores, [company_id |-> company_id, is_active |-> TRUE])
               /\ Finish([Reply(201, "") EXCEPT
                            !.rows = {Row("stores", Len(stores) + 1, Len(stores) + 1,
                                          company_id)}],
                         <<"getSupabaseClient", "db", "db", "respond">>)
               /\ CallGetSupabaseClient
  /\ UNCHANGED <<now, users, companies, staff, categories, products, movements,
                 session, mutations, rival, boot, adjusts>>

\* ------------------------------------------- updating and deleting handlers
\* :staffId / :productId path parameters: two seeded rows and an id no row has.
Targets == {1, 2, 9}

\* The 400 of an update whose query reported an error, with the error's
\* message under `details`.
DbUpdateError == [Reply(400, "DB_UPDATE_ERROR") EXCEPT !.details = "error.message"]

\* update(updateData).eq('id', id).select().single() on a table: the new
\* table; .single() reports an error when no row matched.
UpdateRow(table, id, store_id) ==
  [table EXCEPT ![id].store_id = IF store_id = Undefined THEN @ ELSE store_id]
SoftDelete(table, id) == [table EXCEPT ![id].is_active = FALSE]

Updated(tbl, id, table) ==
  [Reply(200, "") EXCEPT !.rows = {Row(tbl, id, table[id].store_id, Undefined)}]

PutStaff ==
  /\ pc = "handler"
  /\ req.route = "PUT /staff/:staffId"
  /\ \E id \in Targets, store_id \in BodyStores :
       /\ req' = [req EXCEPT !.input = [NoInput EXCEPT !.target = id,
                                                       !.store_id = store_id]]
       /\ IF getSupabaseClient = "null"
            THEN /\ Finish(Unavailable, <<"getSupabaseClient", "respond">>)
                 /\ UNCHANGED staff
          ELSE IF id \notin DOMAIN staff
            THEN /\ Finish(DbUpdateError,
                           <<"getSupabaseClient", "db", "respond">>)
                 /\ UNCHANGED staff
          ELSE /\ staff' = UpdateRow(staff, id, store_id)
               /\ Finish(Updated("staff", id, staff'),
                         <<"getSupabaseClient", "db", "respond">>)
  /\ CallGetSupabaseClient
  /\ UNCHANGED <<now, users, stores, companies, categories, products, movements,
                 session, mutations, rival, boot, adjusts>>

DeleteStaff ==
  /\ pc = "handler"
  /\ req.route = "DELETE /staff/:staffId"
  /\ \E id \in Targets :
       /\ req' = [req EXCEPT !.input = [NoInput EXCEPT !.target = id]]
       /\ IF getSupabaseClient = "null"
            THEN /\ Finish(Unavailable, <<"getSupabaseClient", "respond">>)
                 /\ UNCHANGED staff
          ELSE IF id \notin DOMAIN staff
            THEN /\ Finish(Reply(400, "DB_DELETE_ERROR"),
                           <<"getSupabaseClient", "db", "respond">>)
                 /\ UNCHANGED staff
          ELSE /\ staff' = SoftDelete(staff, id)
               /\ Finish(Reply(200, ""), <<"getSupabaseClient", "db", "respond">>)
  /\ CallGetSupabaseClient
  /\ UNCHANGED <<now, users, stores, companies, categories, products, movements,
                 session, mutations, rival, boot, adjusts>>

PutProducts ==
  /\ pc = "handler"
  /\ req.route = "PUT /products/:productId"
  /\ \E id \in Targets, store_id \in BodyStores :
       /\ req' = [req EXCEPT !.input = [NoInput EXCEPT !.target = id,
                                                       !.store_id = store_id]]
       /\ IF getSupabaseClient = "null"
            THEN /\ Finish(Unavailable, <<"getSupabaseClient", "respond">>)
                 /\ UNCHANGED products
          ELSE IF id \notin DOMAIN products
            THEN /\ Finish(DbUpdateError,
                           <<"getSupabaseClient", "db", "respond">>)
                 /\ UNCHANGED products
          ELSE /\ products' = UpdateRow(products, id, store_id)
               /\ Finish(Updated("products", id, products'),
                         <<"getSupabaseClient", "db", "respond">>)
  /\ CallGetSupabaseClient
  /\ UNCHANGED <<now, users, stores, companies, staff, categories, movements,
                 session, mutations, rival, boot, adjusts>>

DeleteProducts ==
  /\ pc = "handler"
  /\ req.route = "DELETE /products/:productId"
  /\ \E id \in Targets :
       /\ req' = [req EXCEPT !.input = [NoInput EXCEPT !.target = id]]
       /\ IF getSupabaseClient = "null"
            THEN /\ Finish(Unavailable, <<"getSupabaseClient", "respond">>)
                 /\ UNCHANGED products
          ELSE IF id \notin DOMAIN products
            THEN /\ Finish(Reply(400, "DB_DELETE_ERROR"),
                           <<"getSupabaseClient", "db", "respond">>)
                 /\ UNCHANGED products
          ELSE /\ products' = SoftDelete(products, id)
               /\ Finish(Reply(200, ""), <<"getSupabaseClient", "db", "respond">>)
  /\ CallGetSupabaseClient
  /\ UNCHANGED <<now, users, stores, companies, staff, categories, movements,
                 session, mutations, rival, boot, adjusts>>

CompanyNames == {"Renamed"}

PutCompanies ==
  /\ pc = "handler"
  /\ req.route = "PUT /companies/:companyId"
  /\ \E id \in Targets, name \in CompanyNames :
       /\ req' = [req EXCEPT !.input = [NoInput EXCEPT !.target = id, !.name = name]]
       /\ IF getSupabaseClient = "null"
            THEN /\ Finish(Unavailable, <<"getSupabaseClient", "respond">>)
                 /\ UNCHANGED companies
          ELSE IF id \notin DOMAIN companies
            THEN /\ Finish(DbUpdateError,
                           <<"getSupabaseClient", "db", "respond">>)
                 /\ UNCHANGED companies
          ELSE /\ companies' = [companies EXCEPT ![id].name = name]
               /\ Finish([Reply(200, "") EXCEPT !.rows = {Row("companies", id, Undefined, id)}],
                         <<"getSupabaseClient", "db", "respond">>)
  /\ CallGetSupabaseClient
  /\ UNCHANGED <<now, users, stores, staff, categories, products, movements,
                 session, mutations, rival, boot, adjusts>>

DeleteCompanies ==
  /\ pc = "handler"
  /\ req.route = "DELETE /companies/:companyId"
  /\ \E id \in Targets :
       /\ req' = [req EXCEPT !.input = [NoInput EXCEPT !.target = id]]
       /\ IF getSupabaseClient = "null"
            THEN /\ Finish(Unavailable, <<"getSupabaseClient", "respond">>)
                 /\ UNCHANGED companies
          ELSE IF id \notin DOMAIN companies
            THEN /\ Finish(Reply(400, "DB_DELETE_ERROR"),
                           <<"getSupabaseClient", "db", "respond">>)
                 /\ UNCHANGED companies
          ELSE /\ companies' = SoftDelete(companies, id)
               /\ Finish(Reply(200, ""), <<"getSupabaseClient", "db", "respond">>)
  /\ CallGetSupabaseClient
  /\ UNCHANGED <<now, users, stores, staff, categories, products, movements,
                 session, mutations, rival, boot, adjusts>>

\* ------------------------------------------------- POST /inventory/adjust
NewQuantities == {5}

PostInventoryAdjust ==
  /\ pc = "handler"
  /\ req.route = "POST /inventory/adjust"
  /\ \E id \in Targets \cup {Undefined}, complete \in BOOLEAN, new_quantity \in NewQuantities :
       /\ req' = [req EXCEPT !.input = [NoInput EXCEPT !.target = id,
                            !.complete = complete, !.new_quantity = new_quantity]]
       /\ IF id = Undefined \/ ~complete
            THEN /\ Finish(Reply(400, "MISSING_FIELDS"), <<"respond">>)
                 /\ UNCHANGED <<conn, products, movements>>
          ELSE IF getSupabaseClient = "null"
            THEN /\ Finish(Unavailable, <<"getSupabaseClient", "respond">>)
                 /\ CallGetSupabaseClient
                 /\ UNCHANGED <<products, movements>>
          ELSE IF id \notin DOMAIN products
            THEN /\ Finish(Reply(404, "PRODUCT_NOT_FOUND"),
                           <<"getSupabaseClient", "db", "respond">>)
                 /\ CallGetSupabaseClient
                 /\ UNCHANGED <<products, movements>>
          ELSE LET previousStock == products[id].stock_quantity
                   quantity == new_quantity - previousStock
               IN  /\ products' = [products EXCEPT ![id].stock_quantity = new_quantity]
                   /\ movements' = Append(movements,
                        [product_id |-> id, store_id |-> products[id].store_id,
                         quantity |-> quantity, previous_stock |-> previousStock,
                         new_stock |-> new_quantity, created_by |-> req.user.id])
                   /\ Finish([Reply(200, "") EXCEPT
                                !.rows = {Row("products", id, products[id].store_id,
                                              Undefined)}],
                             <<"getSupabaseClient", "db", "db", "db", "respond">>)
                   /\ CallGetSupabaseClient
  /\ UNCHANGED <<now, users, stores, companies, staff, categories, session, mutations, rival, boot, adjusts>>

\* ------------------------------------------------- edits in the SQL editor
\* The users table is edited outside the server (the Supabase SQL editor the
\* schema is installed with): a role is changed, a user is deactivated.
UserEdits ==
  { [id |-> 1, role |-> "cashier", is_active |-> TRUE],
    [id |-> 2, role |-> "manager", is_active |-> FALSE] }

SqlEditorUpdatesUser ==
  /\ pc = "idle"
  /\ mutations < MaxMutations
  /\ \E e \in UserEdits :
       /\ users[e.id].role # e.role \/ users[e.id].is_active # e.is_active
       /\ users' = [users EXCEPT ![e.id].role = e.role, ![e.id].is_active = e.is_active]
  /\ mutations' = mutations + 1
  /\ UNCHANGED <<now, conn, stores, companies, staff, categories, products, movements,
                 session, pc, req, res, trace, rival, boot, adjusts>>

\* ------------------------------------------------------------- the client
\* The client reads the response and keeps the token of a successful login.
Complete ==
  /\ pc = "done"
  /\ session' = IF res.token # NoToken THEN res.token ELSE session
  /\ pc' = "idle"
  /\ req' = NoRequest
  /\ res' = NoResponse
  /\ trace' = <<>>
  /\ UNCHANGED <<now, conn, db, mutations, rival, boot, adjusts>>

\* The clock instants at which requests arrive: the start, and around each
\* multiple of the token lifetime the last second before it and the second
\* second past it.
Instants ==
  {0} \cup { k * ExpiresIn + d : k \in 1..MaxTicks, d \in {-1, 2} }

\* Time passes between requests.
Tick ==
  /\ pc = "idle"
  /\ \E t \in Instants : t > now /\ now' = t
  /\ UNCHANGED <<conn, db, session, pc, req, res, trace, mutations, rival, boot, adjusts>>

Next ==
  \/ Receive
  \/ authenticateToken
  \/ optionalAuthentication
  \/ requireRole
  \/ PostAuthRegister
  \/ PostAuthRegisterInsert
  \/ GetAuthProfile
  \/ PostAuthLogout
  \/ PostStores
  \/ GetCompanies
  \/ PutCompanies
  \/ DeleteCompanies
  \/ GetSyncUsers
  \/ GetSyncAll
  \/ PostAuthLogin
  \/ GetStaff
  \/ PostStaff
  \/ PutStaff
  \/ DeleteStaff
  \/ GetStores
  \/ GetUsers
  \/ GetCategories
  \/ PostCategories
  \/ GetProducts
  \/ PostProducts
  \/ PutProducts
  \/ DeleteProducts
  \/ GetInventoryMovements
  \/ PostInventoryAdjust
  \/ GetProductsStats
  \/ PostCompanies
  \/ SqlEditorUpdatesUser
  \/ Complete
  \/ Tick

Spec == Init /\ [][Next]_vars

\* The same server with a second client registering concurrently.
\* ------------------------------------- getSupabaseClient, call by call
\* The lazy initialisation at the grain of its awaits: several callers run
\* getSupabaseClient concurrently, each a synchronous segment up to its await.
validateEnvVars == env # "missing"
createClientThrows == env = "throws"
InFlight == initialization.phase \in {"testing", "seeding"}

\* A getSupabaseClient that starts the initialisation whenever it has no handle.
getSupabaseClientBranch_noPromiseCheck ==
  IF supabase # "null" THEN "cached" ELSE "initialize"

\* The branch a call takes: the cached handle, the existing promise, or a
\* first initialisation.
getSupabaseClientBranch ==
  IF supabase # "null" THEN "cached"
  ELSE IF initializationPromise # "null" THEN "promise"
  ELSE "initialize"

\* An initialisation whose failure clears the promise, so that it is retried.
Settled_retriedOnNull(value) == IF value = "client" THEN "client" ELSE "null"

\* initializationPromise once initializeSupabase has returned `value`.
Settled(value) == IF value = "client" THEN "client" ELSE "failed"

\* initializeSupabase() up to its first await, or to its return from the
\* catch block when validation fails or createClient throws.
initializeSupabase ==
  IF ~validateEnvVars
    THEN /\ initialization' = [initialization EXCEPT !.runs = @ + 1,
                                                     !.phase = "failed"]
         /\ supabase' = supabase
         /\ initializationPromise' = Settled("null")
  ELSE IF createClientThrows
    THEN /\ initialization' = [initialization EXCEPT !.runs = @ + 1,
                                                     !.created = @ + 1,
                                                     !.phase = "failed"]
         /\ supabase' = supabase
         /\ initializationPromise' = Settled("null")
  ELSE /\ initialization' = [initialization EXCEPT !.runs = @ + 1,
                                                   !.created = @ + 1,
                                                   !.phase = "testing"]
       /\ supabase' = "client"
       /\ initializationPromise' = "pending"

\* A caller runs getSupabaseClient() up to the point where it returns the
\* cached handle or awaits the promise.
CallerCalls(c) ==
  /\ callers[c].pc = "idle"
  /\ callers[c].calls < MaxCalls
  /\ CASE getSupabaseClientBranch = "cached" ->
            /\ callers' = [callers EXCEPT ![c] =
                             [pc |-> "returned", handle |-> supabase,
                              early |-> InFlight, calls |-> @.calls + 1]]
            /\ UNCHANGED <<initialization, supabase, initializationPromise>>
       [] getSupabaseClientBranch = "promise" ->
            /\ callers' = [callers EXCEPT ![c].pc = "awaiting",
                                          ![c].calls = @ + 1]
            /\ UNCHANGED <<initialization, supabase, initializationPromise>>
       [] getSupabaseClientBranch = "initialize" ->
            /\ callers' = [callers EXCEPT ![c].pc = "awaiting",
                                          ![c].calls = @ + 1]
            /\ initializeSupabase
  /\ UNCHANGED <<now, env, db, session, pc, req, res, trace, mutations, rival, adjusts>>

\* await testSupabaseConnection() completes; on failure initializeSupabase
\* skips the demo data and returns the handle.
ConnectionTested ==
  /\ initialization.phase = "testing"
  /\ \E success \in BOOLEAN :
       IF success
         THEN /\ initialization' = [initialization EXCEPT !.phase = "seeding"]
              /\ UNCHANGED initializationPromise
         ELSE /\ initialization' = [initialization EXCEPT !.phase = "done"]
              /\ initializationPromise' = Settled(supabase)
  /\ UNCHANGED <<now, env, supabase, db, session, pc, req, res, trace, mutations,
                 rival, callers, adjusts>>

\* await initializeDemoData() completes and initializeSupabase returns.
DemoDataInitialized ==
  /\ initialization.phase = "seeding"
  /\ initialization' = [initialization EXCEPT !.phase = "done"]
  /\ initializationPromise' = Settled(supabase)
  /\ UNCHANGED <<now, env, supabase, db, session, pc, req, res, trace, mutations,
                 rival, callers, adjusts>>

\* The promise a caller awaits has settled: the caller gets its value.
CallerResumes(c) ==
  /\ callers[c].pc = "awaiting"
  /\ initializationPromise # "pending"
  /\ callers' = [callers EXCEPT ![c].pc = "returned",
                                ![c].handle = IF initializationPromise = "client"
                                                THEN "client" ELSE "null",
                                ![c].early = FALSE]
  /\ UNCHANGED <<now, conn, db, session, pc, req, res, trace, mutations, rival,
                 initialization, adjusts>>

\* The caller's request ends; its client may send another.
CallerEnds(c) ==
  /\ callers[c].pc = "returned"
  /\ callers' = [callers EXCEPT ![c].pc = "idle", ![c].handle = "null",
                                ![c].early = FALSE]
  /\ UNCHANGED <<now, conn, db, session, pc, req, res, trace, mutations, rival,
                 initialization, adjusts>>

ClientInit ==
  /\ now = 0
  /\ env \in {"ok", "missing", "throws"}
  /\ supabase = "null"
  /\ initializationPromise = "null"
  /\ users = SeedUsers
  /\ stores = SeedStores
  /\ companies = SeedCompanies
  /\ staff = SeedStaff
  /\ categories = SeedCategories
  /\ products = SeedProducts
  /\ movements = <<>>
  /\ session = NoToken
  /\ pc = "idle"
  /\ req = NoRequest
  /\ res = NoResponse
  /\ trace = <<>>
  /\ mutations = 0
  /\ rival = NoRival
  /\ initialization = NotInitialized
  /\ callers = [c \in Callers |-> NoCaller]
  /\ adjusts = [a \in Adjusters |-> NoAdjust]

ClientNext ==
  \/ \E c \in Callers : CallerCalls(c)
  \/ ConnectionTested
  \/ DemoDataInitialized
  \/ \E c \in Callers : CallerResumes(c)
  \/ \E c \in Callers : CallerEnds(c)

ClientSpec == ClientInit /\ [][ClientNext]_vars

\* ------------------------------- POST /inventory/adjust, query by query
\* Two accepted requests run the handler concurrently, each from one awaited
\* query to the next, with the database client available.
AdjustQuantities == {5, 7}

\* The body is read and validated; the handler awaits the client and then
\* its select.
AdjustReceives(a) ==
  /\ adjusts[a].pc = "idle"
  /\ \E product_id \in Targets, new_quantity \in AdjustQuantities :
       adjusts' = [adjusts EXCEPT ![a].pc = "select",
                                  ![a].product_id = product_id,
                                  ![a].new_quantity = new_quantity]
  /\ UNCHANGED <<now, conn, db, session, pc, req, res, trace, mutations, rival, boot>>

\* select('stock_quantity, store_id, name').eq('id', product_id).single()
AdjustSelects(a) ==
  /\ adjusts[a].pc = "select"
  /\ LET id == adjusts[a].product_id
     IN  IF id \notin DOMAIN products
           THEN adjusts' = [adjusts EXCEPT ![a].pc = "done", ![a].status = 404]
           ELSE adjusts' = [adjusts EXCEPT
                              ![a].pc = "update",
                              ![a].previous_stock = products[id].stock_quantity,
                              ![a].quantity = adjusts[a].new_quantity
                                                - products[id].stock_quantity]
  /\ UNCHANGED <<now, conn, db, session, pc, req, res, trace, mutations, rival, boot>>

\* update({stock_quantity: new_quantity}).eq('id', product_id)
AdjustUpdates(a) ==
  /\ adjusts[a].pc = "update"
  /\ LET id == adjusts[a].product_id
     IN  /\ products' = [products EXCEPT ![id].stock_quantity = adjusts[a].new_quantity]
         /\ adjusts' = [adjusts EXCEPT
                          ![a].pc = "insert",
                          ![a].before = products[id].stock_quantity,
                          ![a].turn = 1 + Cardinality({ b \in Adjusters :
                                                          adjusts[b].turn > 0 })]
  /\ UNCHANGED <<now, conn, users, stores, companies, staff, categories, movements,
                 session, pc, req, res, trace, mutations, rival, boot>>

\* insert([movementData]) into inventory_movements, then the 200 response.
AdjustInserts(a) ==
  /\ adjusts[a].pc = "insert"
  /\ LET id == adjusts[a].product_id
     IN  movements' = Append(movements,
           [product_id |-> id, store_id |-> products[id].store_id,
            quantity |-> adjusts[a].quantity,
            previous_stock |-> adjusts[a].previous_stock,
            new_stock |-> adjusts[a].new_quantity, created_by |-> 2])
  /\ adjusts' = [adjusts EXCEPT ![a].pc = "done", ![a].status = 200,
                                ![a].movement = Len(movements) + 1]
  /\ UNCHANGED <<now, conn, users, stores, companies, staff, categories, products,
                 session, pc, req, res, trace, mutations, rival, boot>>

AdjustInit ==
  /\ now = 0
  /\ env = "ok"
  /\ supabase = "client"
  /\ initializationPromise = "client"
  /\ users = SeedUsers
  /\ stores = SeedStores
  /\ companies = SeedCompanies
  /\ staff = SeedStaff
  /\ categories = SeedCategories
  /\ products = SeedProducts
  /\ movements = <<>>
  /\ session = NoToken
  /\ pc = "idle"
  /\ req = NoRequest
  /\ res = NoResponse
  /\ trace = <<>>
  /\ mutations = 0
  /\ rival = NoRival
  /\ initialization = [phase |-> "done", runs |-> 1, created |-> 1]
  /\ callers = [c \in Callers |-> NoCaller]
  /\ adjusts = [a \in Adjusters |-> NoAdjust]

AdjustNext ==
  \/ \E a \in Adjusters : AdjustReceives(a)
  \/ \E a \in Adjusters : AdjustSelects(a)
  \/ \E a \in Adjusters : AdjustUpdates(a)
  \/ \E a \in Adjusters : AdjustInserts(a)

AdjustSpec == AdjustInit /\ [][AdjustNext]_vars

\* ----------------------------------------------- token verification alone
\* Tokens a client can present to the gate: the claims of a seeded user with
\* the server's lifetime, with or without an nbf claim, signed with the
\* server key or with another one.
NotBefores == {0, ExpiresIn, MaxTicks * ExpiresIn + 3}
VerifyPayloads ==
  LET base == { generateToken(UserObject(i), 0).payload : i \in 1..3 }
  IN  base \cup { [k \in DOMAIN p \cup {"nbf"} |-> IF k = "nbf" THEN n ELSE p[k]] :
                    p \in base, n \in NotBefores }
VerifyTokens ==
  { [payload |-> p, sig |-> Sign(p, k)] :
      p \in VerifyPayloads, k \in {JWT_SECRET, "client-secret"} }

\* A request with such a token stands before authenticateToken at some instant.
VerifyInit ==
  /\ now \in Instants
  /\ env = "ok"
  /\ supabase = "null"
  /\ initializationPromise = "null"
  /\ users = SeedUsers
  /\ stores = SeedStores
  /\ companies = SeedCompanies
  /\ staff = SeedStaff
  /\ categories = SeedCategories
  /\ products = SeedProducts
  /\ movements = <<>>
  /\ session = NoToken
  /\ pc = "auth"
  /\ \E route \in {"GET /auth/profile", "GET /staff"}, token \in VerifyTokens :
       req = [NoRequest EXCEPT !.route = route, !.header = <<"Bearer", token>>]
  /\ res = NoResponse
  /\ trace = <<>>
  /\ mutations = 0
  /\ rival = NoRival
  /\ initialization = NotInitialized
  /\ callers = [c \in Callers |-> NoCaller]
  /\ adjusts = [a \in Adjusters |-> NoAdjust]

VerifyNext == authenticateToken

VerifySpec == VerifyInit /\ [][VerifyNext]_vars

RaceNext ==
  \/ Next
  \/ RivalRegister
  \/ RivalRegisterInsert
  \/ RivalComplete

RaceSpec == Init /\ [][RaceNext]_vars

TypeOK ==
  /\ pc \in {"idle", "auth", "optauth", "role", "handler", "insert", "done"}
  /\ rival.pc \in {"idle", "checked", "done"}
  /\ supabase \in {"null", "client"}
  /\ mutations \in 0..MaxMutations

\* =========================================================== verification
Ran(event) == \E i \in DOMAIN trace : trace[i] = event
Count(event) == Cardinality({ i \in DOMAIN trace : trace[i] = event })
PastGate == req.route \in AuthenticatedRoutes /\ pc \in {"role", "handler", "done"}

\* The stored user row the presented token was issued to (tokens of the
\* database-less fallback login belong to no row).
Holder == users[req.user.id]
StoreBound(roles) ==
  env = "ok" /\ req.user.role \in roles /\ Truthy(Holder.store_id)

\* C1: a request to a route guarded by authenticateToken has, once the gate
\* has run, exactly one of two outcomes: the token verifies (signed by the
\* server key, not expired), next() was called once and req.user holds the
\* decoded claims; or one response was sent, 401 NO_TOKEN when the header
\* yields no token and 403 with a token-error code when the token fails, and
\* then neither requireRole nor the handler ran and no database call was made.
C1_GateHasTwoOutcomes ==
  PastGate =>
    LET verifies == /\ HasToken(req.header)
                    /\ req.header[2].sig = Sign(req.header[2].payload, JWT_SECRET)
                    /\ now < req.header[2].payload.exp
    IN  /\ Len(trace) >= 2
        /\ trace[1] = "authenticateToken"
        /\ Count("authenticateToken") = 1
        /\ IF verifies
             THEN /\ trace[2] = "next"
                  /\ req.user.id = req.header[2].payload.id
                  /\ req.user.email = req.header[2].payload.email
                  /\ req.user.role = req.header[2].payload.role
                  /\ Count("respond") <= 1
             ELSE /\ trace = <<"authenticateToken", "respond">>
                  /\ pc = "done"
                  /\ req.user = NoUser
                  /\ res.rows = {} /\ res.token = NoToken
                  /\ IF ~HasToken(req.header)
                       THEN res.status = 401 /\ res.code = "NO_TOKEN"
                       ELSE /\ res.status = 403
                            /\ res.code \in {"TOKEN_EXPIRED", "MALFORMED_TOKEN",
                                             "TOKEN_NOT_ACTIVE", "INVALID_TOKEN"}

\* An expired server-issued token on a mutating route was turned away at the gate.
C1_Witness ==
  /\ pc = "done"
  /\ req.route \in MutatingRoutes
  /\ HasToken(req.header)
  /\ req.header[2].sig = Sign(req.header[2].payload, JWT_SECRET)
  /\ res.status = 403 /\ res.code = "TOKEN_EXPIRED"
  /\ trace = <<"authenticateToken", "respond">>

\* C2: requireRole(roles) calls next() exactly when req.user is non-null and
\* its role is in roles.  Otherwise it responds and the handler never runs:
\* AUTH_REQUIRED for a null user, else 403 INSUFFICIENT_PERMISSIONS echoing the
\* required roles and the actual role.  No role stands in for another: a role
\* missing from the list is denied and no row is touched.
C2_RoleIsSetMembership ==
  /\ \A roles \in SUBSET Roles :
       /\ ~requireRoleOutcome(NoUser, roles).next
       /\ requireRoleOutcome(NoUser, roles).code = "AUTH_REQUIRED"
  /\ (Ran("requireRole") =>
        LET roles == RequiredRoles(req.route)
            i == CHOOSE j \in DOMAIN trace : trace[j] = "requireRole"
        IN  /\ Count("requireRole") = 1
            /\ i = 3
            /\ req.route \in RoleCheckedRoutes
            /\ IF req.user # NoUser /\ req.user.role \in roles
                 THEN trace[i + 1] = "next"
                 ELSE /\ trace = <<"authenticateToken", "next", "requireRole", "respond">>
                      /\ pc = "done"
                      /\ res.status = 403
                      /\ res.code = "INSUFFICIENT_PERMISSIONS"
                      /\ res.requiredRoles = roles
                      /\ res.userRole = req.user.role
                      /\ res.rows = {})
  /\ (Ran("handler") /\ req.route \in RoleCheckedRoutes =>
        req.user # NoUser /\ req.user.role \in RequiredRoles(req.route))

\* A cashier's valid token on POST /companies was refused by the role policy.
C2_Witness ==
  /\ pc = "done"
  /\ req.route = "POST /companies"
  /\ req.user.role = "cashier"
  /\ res.status = 403 /\ res.code = "INSUFFICIENT_PERMISSIONS"
  /\ res.requiredRoles = {"super_admin"}
  /\ ~Ran("handler")

ScopedListings == {"GET /staff", "GET /stores", "GET /categories", "GET /products"}

\* The rows a listing selects before any scope is applied.
Listed(route) ==
  CASE route = "GET /staff" -> Active(staff, StaffRows)
    [] route = "GET /stores" -> Active(stores, StoreRows)
    [] route = "GET /categories" -> Active(categories, CategoryRows)
    [] route = "GET /products" -> Active(products, ProductRows)

\* The scope a listing derives from the identity and the query parameter.
ScopeOf(route, user, q) ==
  CASE route = "GET /staff" -> staffScope(user, q)
    [] route = "GET /stores" -> storesScope(user, q)
    [] route = "GET /categories" -> categoriesScope(user, q)
    [] route = "GET /products" -> productsScope(user, q)

Answered(routes) == pc = "done" /\ req.route \in routes /\ res.status = 200

\* C3 (as claimed): a handler touches the database for resource rows only for
\* a request that presented a valid token and passed a role allow-list check.
C3_ResourceDataBehindGateAndPolicy ==
  (Ran("db") /\ req.route \notin {"POST /auth/login", "POST /auth/register"}) =>
     /\ Len(trace) >= 4
     /\ trace[1] = "authenticateToken" /\ trace[2] = "next"
     /\ trace[3] = "requireRole" /\ trace[4] = "next"

\* C4 (as claimed): what a store-bound manager or cashier is shown by a
\* store-scoped read lies in that store, whatever the query says.
C4_ReadsStayInOwnStore ==
  (/\ Answered({"GET /staff", "GET /categories", "GET /products", "GET /products/stats",
                "GET /inventory/movements", "GET /users"})
   /\ StoreBound({"manager", "cashier"}))
  => \A r \in res.rows : r.store_id = Holder.store_id

\* C5 (as claimed): a store-bound manager's update, delete or stock adjustment
\* of a row of another store, or a move of a row to another store, is refused
\* with 403 STORE_ACCESS_DENIED.
C5_WritesStayInOwnStore ==
  (/\ pc = "done"
   /\ req.route \in {"PUT /staff/:staffId", "DELETE /staff/:staffId",
                     "PUT /products/:productId", "DELETE /products/:productId",
                     "POST /inventory/adjust"}
   /\ Ran("handler")
   /\ StoreBound({"manager"})
   /\ LET table == IF req.route \in {"PUT /staff/:staffId", "DELETE /staff/:staffId"}
                     THEN staff ELSE products
      IN  \/ Truthy(req.input.store_id) /\ req.input.store_id # Holder.store_id
          \/ /\ req.input.target \in DOMAIN table
             /\ table[req.input.target].store_id # Holder.store_id
             /\ req.route = "POST /inventory/adjust" => req.input.complete)
  => res.status = 403 /\ res.code = "STORE_ACCESS_DENIED"

\* C6 (as claimed): a store-bound manager creating staff, a category or a
\* product (all required fields given) for another store gets 403
\* STORE_ACCESS_DENIED before getSupabaseClient or any query runs.
C6_CreateForOtherStoreDeniedFirst ==
  (/\ pc = "done"
   /\ req.route \in {"POST /staff", "POST /categories", "POST /products"}
   /\ Ran("handler")
   /\ StoreBound({"manager"})
   /\ req.input.complete
   /\ Truthy(req.input.store_id) /\ req.input.store_id # Holder.store_id)
  => /\ res.status = 403 /\ res.code = "STORE_ACCESS_DENIED"
     /\ ~Ran("getSupabaseClient") /\ ~Ran("db")

\* C7 (as claimed): the identity decoded from a token issued at login or
\* registration carries
\* the store_id and company_id of the user row it was issued for.
C7_TokenCarriesScope ==
  (/\ pc = "done" /\ req.route \in {"POST /auth/login", "POST /auth/register"}
   /\ res.token # NoToken /\ Ran("db"))
  => /\ DecodedUser(res.token.payload).store_id = users[res.user].store_id
     /\ DecodedUser(res.token.payload).company_id = users[res.user].company_id

\* C8 (as claimed): an identity other than super_admin with neither a
\* company_id nor a store_id gets an empty result from every scoped listing.
C8_NoAffiliationSeesNothing ==
  (/\ Answered(ScopedListings \cup {"GET /inventory/movements"})
   /\ req.user.role # "super_admin"
   /\ ~Truthy(req.user.store_id) /\ ~Truthy(req.user.company_id)
   /\ ~Truthy(Holder.store_id) /\ ~Truthy(Holder.company_id))
  => res.rows = {}

\* C9: for a super_admin, GET /staff, /categories, /products (query store_id)
\* and GET /stores (query company_id) apply no scope filter when the parameter
\* is absent or blank and exactly 'column = v' when it is v, and return exactly
\* the active rows that satisfy it.
C9_AdminScopeIsTheOverride ==
  (Answered(ScopedListings) /\ req.user.role = "super_admin") =>
    LET v == req.input.override
        column == IF req.route = "GET /stores" THEN "company_id" ELSE "store_id"
    IN  IF Truthy(v)
          THEN /\ res.scope = [column |-> column, value |-> v]
               /\ res.rows = { r \in Listed(req.route) :
                                 IF column = "company_id" THEN r.company_id = v
                                                          ELSE r.store_id = v }
          ELSE /\ res.scope = NoScope
               /\ res.rows = Listed(req.route)

\* A super_admin asked for the staff of store 2 and got that store's staff only.
C9_Witness ==
  /\ Answered({"GET /staff"})
  /\ req.user.role = "super_admin"
  /\ req.input.override = 2
  /\ res.rows # {} /\ res.rows # Listed("GET /staff")

\* C10: for an identity that is not super_admin, the scope filter and the rows
\* of GET /staff, /stores, /categories and /products do not depend on the
\* store_id / company_id query parameter: any other value of it yields the
\* response that was given.
C10_OnlyAdminOverrides ==
  (Answered(ScopedListings) /\ req.user.role # "super_admin") =>
    \A v \in Overrides :
      /\ ScopeOf(req.route, req.user, v) = res.scope
      /\ { r \in Listed(req.route) : Matches(ScopeOf(req.route, req.user, v), r) }
           = res.rows

\* A cashier asked for the categories of store 1.
C10_Witness ==
  /\ Answered({"GET /categories"})
  /\ req.user.role = "cashier"
  /\ req.input.override = 1
  /\ res.rows # {}

CreatingRoutes == {"POST /staff", "POST /categories", "POST /products"}
ServerSigned(token) == token.sig = Sign(token.payload, JWT_SECRET)

\* C11 (as claimed): for every identity that is not super_admin and has a
\* company_id, GET /stores returns exactly the active stores of that company.
C11_StoresListedByCompany ==
  (/\ Answered({"GET /stores"})
   /\ env = "ok"
   /\ req.user.role # "super_admin"
   /\ Truthy(Holder.company_id))
  => res.rows = { r \in Active(stores, StoreRows) : r.company_id = Holder.company_id }

\* C12 (as claimed): a row a store-bound manager creates by POST /staff,
\* /categories or /products carries the manager's own store_id, and a body
\* without store_id is not turned away as incomplete; a super_admin's body
\* without store_id gets 400 MISSING_FIELDS and reaches no query.
C12_CreatedRowsCarryCreatorsStore ==
  (pc = "done" /\ req.route \in CreatingRoutes /\ Ran("handler")) =>
    /\ (StoreBound({"manager"}) /\ res.status = 201)
         => \A r \in res.rows : r.store_id = Holder.store_id
    /\ (StoreBound({"manager"}) /\ req.input.complete
           /\ req.input.store_id = Undefined)
         => res.code # "MISSING_FIELDS"
    /\ (req.user.role = "super_admin" /\ req.input.store_id = Undefined)
         => /\ res.status = 400 /\ res.code = "MISSING_FIELDS"
            /\ ~Ran("db") /\ res.rows = {}

\* C13: a token whose signature does not verify under the server secret - an
\* issued token with a rewritten payload, a token signed with another key,
\* garbage - is answered 403 MALFORMED_TOKEN by authenticateToken, whatever
\* the time, and its claims are never attached as req.user: nothing after the
\* gate runs.
C13_ForgedTokensAreMalformed ==
  (PastGate /\ HasToken(req.header) /\ ~ServerSigned(req.header[2])) =>
    /\ pc = "done"
    /\ res.status = 403 /\ res.code = "MALFORMED_TOKEN"
    /\ req.user = NoUser
    /\ trace = <<"authenticateToken", "respond">>
    /\ res.rows = {} /\ res.token = NoToken

\* A token whose role was rewritten to super_admin under the signature issued
\* for another role was turned away.
C13_Witness ==
  /\ pc = "done"
  /\ req.route \in AuthenticatedRoutes
  /\ HasToken(req.header)
  /\ req.header[2].payload.role = "super_admin"
  /\ req.header[2].sig.key = JWT_SECRET
  /\ req.header[2].sig.digest.role = "cashier"
  /\ req.header[2].payload.exp > now
  /\ res.status = 403 /\ res.code = "MALFORMED_TOKEN"

\* C14: a token issued at time t is accepted by authenticateToken at every
\* time before t + 7 days and answered 403 TOKEN_EXPIRED at every time later
\* than t + 7 days + 1 second; every token the server issues, and every token
\* a client holds, expires 7 days after its issue: nothing extends it.
C14_SevenDayLifetime ==
  /\ (PastGate /\ HasToken(req.header) /\ ServerSigned(req.header[2])) =>
        LET claims == req.header[2].payload
        IN  /\ now < claims.iat + ExpiresIn
                 => /\ trace[2] = "next"
                    /\ req.user.id = claims.id /\ req.user.role = claims.role
            /\ now > claims.iat + ExpiresIn + 1
                 => /\ trace = <<"authenticateToken", "respond">>
                    /\ res.status = 403 /\ res.code = "TOKEN_EXPIRED"
                    /\ req.user = NoUser
  /\ res.token # NoToken =>
        res.token.payload.iat = now /\ res.token.payload.exp = now + ExpiresIn
  /\ session # NoToken => session.payload.exp = session.payload.iat + ExpiresIn

\* A token was accepted in the last second of its seventh day.
C14_Witness ==
  /\ PastGate
  /\ HasToken(req.header) /\ ServerSigned(req.header[2])
  /\ now = req.header[2].payload.iat + ExpiresIn - 1
  /\ Ran("handler")
  /\ req.user.id = req.header[2].payload.id

LoginDone(mode) ==
  /\ pc = "done" /\ req.route = "POST /auth/login"
  /\ req.input.email # "" /\ req.input.password # ""
  /\ IsString(req.input.email)
  /\ env = mode

\* C15: with a database client, a login with the e-mail (in any letter case)
\* and the password of an active stored user answers 200 with a user object
\* that has no password key and a token that verifies at every instant
\* before its expiry and decodes to the id and role of that user row as
\* stored at the login; a super_admin's accepted token reaches the GET /users
\* handler.
C15_LoginYieldsStoredIdentity ==
  /\ LoginDone("ok") =>
        LET id == FindActiveUser(ToLowerCase(req.input.email))
        IN  (id # Undefined /\ users[id].password = BcryptHash(req.input.password))
            => /\ res.status = 200
               /\ res.user = id
               /\ "password" \notin res.userFields
               /\ "id" \in res.userFields /\ "role" \in res.userFields
               /\ ServerSigned(res.token)
               /\ DecodedUser(res.token.payload).id = id
               /\ DecodedUser(res.token.payload).role = users[id].role
               /\ \A t \in Instants :
                    (now <= t /\ t < now + ExpiresIn)
                    => jwtVerifyError(res.token, t) = ""
  /\ (/\ pc = "done" /\ req.route = "GET /users"
      /\ HasToken(req.header) /\ ServerSigned(req.header[2])
      /\ now < req.header[2].payload.exp
      /\ req.header[2].payload.role = "super_admin")
     => /\ Ran("handler")
        /\ req.user.id = req.header[2].payload.id
        /\ req.user.role = "super_admin"

\* Admin@TechCorp.com / password123 logged in against the seeded row.
C15_Witness ==
  /\ LoginDone("ok")
  /\ req.input.email = "Admin@TechCorp.com"
  /\ req.input.password = "password123"
  /\ res.status = 200 /\ res.user = 1
  /\ res.token.payload.role = "super_admin"

C17_LogoutAlwaysSucceeds ==
  /\ (pc = "done" /\ req.route = "POST /auth/logout") =>
        /\ res.status = 200 /\ res.code = "LOGOUT_SUCCESS"
        /\ trace = <<"optionalAuthentication", "next", "handler", "respond">>
        /\ res.token = NoToken
  /\ (pc \in {"handler", "done"} /\ req.route = "POST /auth/logout") =>
        IF /\ HasToken(req.header) /\ ServerSigned(req.header[2])
           /\ now < req.header[2].payload.exp
          THEN req.user.id = req.header[2].payload.id
          ELSE req.user = NoUser

\* A logout with an expired token was answered 200.
C17_Witness ==
  /\ pc = "done" /\ req.route = "POST /auth/logout"
  /\ HasToken(req.header) /\ ServerSigned(req.header[2])
  /\ now >= req.header[2].payload.exp
  /\ res.status = 200 /\ req.user = NoUser

\* C18: whether authenticateToken accepts a server-signed token, and the id
\* and role it resolves, depend on the token and the clock alone: an
\* unexpired token is accepted whatever the users table says by now, and the
\* token a logout was called with still verifies, at that moment and at
\* every later instant before its expiry.
C18_VerificationIsStateless ==
  /\ (PastGate /\ HasToken(req.header) /\ ServerSigned(req.header[2])
        /\ now < req.header[2].payload.exp)
     => /\ trace[2] = "next"
        /\ req.user.id = req.header[2].payload.id
        /\ req.user.role = req.header[2].payload.role
  /\ (pc = "done" /\ req.route = "POST /auth/logout" /\ req.user # NoUser)
     => /\ res.status = 200
        /\ \A t \in Instants :
             (now <= t /\ t < req.header[2].payload.exp)
             => jwtVerifyError(req.header[2], t) = ""

\* A token issued to a super_admin was accepted, and served by a handler as
\* super_admin, after the user's row had been given another role.
C18_Witness ==
  /\ pc = "done"
  /\ req.route \in AuthenticatedRoutes
  /\ Ran("handler")
  /\ req.user.role = "super_admin"
  /\ req.user.id \in DOMAIN users
  /\ users[req.user.id].role = "cashier"
  /\ res.status = 200

RegisterDone == pc = "done" /\ req.route = "POST /auth/register"
HasEmailShape(e) == e \in {"Admin@TechCorp.com", "New@Shop.com"}

\* The response of a registration as a function of its body's validity.
C19_ValidationOrder ==
  RegisterDone =>
    LET missing == req.input.email = "" \/ req.input.password = ""
                     \/ req.input.name = ""
        shaped == HasEmailShape(req.input.email)
        short == Len(req.input.password) < 6
        expected == IF missing THEN "MISSING_FIELDS"
                    ELSE IF ~shaped THEN "INVALID_EMAIL"
                    ELSE IF short THEN "WEAK_PASSWORD"
                    ELSE ""
    IN  IF expected # ""
          THEN /\ res.status = 400 /\ res.code = expected
               /\ trace = <<"handler", "respond">>
               /\ res.token = NoToken /\ res.user = Undefined
          ELSE res.status # 400

\* A registration step that answers 400 leaves the tables and the client
\* connection as they were.
C19_RejectionHasNoEffect ==
  (pc = "handler" /\ req.route = "POST /auth/register" /\ res'.status = 400)
  => UNCHANGED <<db, conn>>

\* C19: POST /auth/register answers 400 MISSING_FIELDS when email, password or
\* name is missing, else 400 INVALID_EMAIL when the email lacks the
\* local@domain.tld shape, else 400 WEAK_PASSWORD when the password has fewer
\* than 6 characters; each of these before getSupabaseClient or any query,
\* with no token issued and no row created.
C19_RegisterValidatesFirst ==
  []C19_ValidationOrder /\ [][C19_RejectionHasNoEffect]_vars

\* The 5-character password abc12, with a valid email and a name, was refused.
C19_Witness ==
  /\ RegisterDone
  /\ req.input.email = "New@Shop.com" /\ req.input.name = "Ann"
  /\ req.input.password = "abc12"
  /\ res.status = 400 /\ res.code = "WEAK_PASSWORD"

\* C20: no two user rows have the same email.  A registration whose email
\* (lower-cased) is already stored gets 409 USER_EXISTS and no token; one that
\* gets 201 owns the only row with its email.  Of two concurrent registrations
\* of one email at most one gets 201, the other 409 USER_EXISTS.
C20_OneRowPerEmail ==
  /\ \A i, j \in DOMAIN users : users[i].email = users[j].email => i = j
  /\ (RegisterDone /\ res.status = 201) =>
        /\ res.user \in DOMAIN users
        /\ users[res.user].email = ToLowerCase(req.input.email)
        /\ res.token.payload.id = res.user
  /\ (RegisterDone /\ res.status = 409) =>
        /\ res.code = "USER_EXISTS" /\ res.token = NoToken
        /\ \E i \in DOMAIN users : users[i].email = ToLowerCase(req.input.email)
  /\ (rival.pc = "done" /\ rival.status = 409) =>
        /\ rival.code = "USER_EXISTS" /\ rival.token = NoToken
        /\ \E i \in DOMAIN users : users[i].email = ToLowerCase(rival.email)
  /\ (RegisterDone /\ rival.pc = "done" /\ Ran("db") /\ rival.status # 503
        /\ ToLowerCase(req.input.email) = ToLowerCase(rival.email))
     => /\ {res.status, rival.status} \subseteq {201, 409}
        /\ ~(res.status = 201 /\ rival.status = 201)

\* Both registrations of new@shop.com found no row; the first client's insert
\* won and the second client's was refused by the unique constraint.
C20_Witness ==
  /\ RegisterDone /\ res.status = 201
  /\ rival.pc = "done" /\ rival.checked
  /\ rival.status = 409 /\ rival.code = "USER_EXISTS"
  /\ ToLowerCase(req.input.email) = ToLowerCase(rival.email)

\* C23 (as claimed): a handler that got null from getSupabaseClient answers
\* 503 SERVICE_UNAVAILABLE, makes no database call and issues no token; no
\* handler substitutes a fallback result for the missing database.
C23_NullClientMeans503 ==
  (pc = "done" /\ Ran("getSupabaseClient") /\ supabase = "null")
  => /\ res.status = 503 /\ res.code = "SERVICE_UNAVAILABLE"
     /\ ~Ran("db")
     /\ res.token = NoToken /\ res.user = Undefined

\* C24 (as claimed): an error response carries an error text and a code and
\* nothing of the caught exception's or the database error's message.
C24_ErrorsCarryNoInternals ==
  (pc = "done" /\ res.status >= 400) => res.code # "" /\ res.details = ""

UpdatingRoutes ==
  {"PUT /staff/:staffId", "DELETE /staff/:staffId", "PUT /products/:productId",
   "DELETE /products/:productId", "PUT /companies/:companyId",
   "DELETE /companies/:companyId"}
TableOf(route) ==
  CASE route \in {"PUT /staff/:staffId", "DELETE /staff/:staffId"} -> staff
    [] route \in {"PUT /products/:productId", "DELETE /products/:productId"} -> products
    [] OTHER -> companies
NotFoundCode(route) ==
  CASE route \in {"PUT /staff/:staffId", "DELETE /staff/:staffId"} -> "STAFF_NOT_FOUND"
    [] route \in {"PUT /products/:productId", "DELETE /products/:productId"}
         -> "PRODUCT_NOT_FOUND"
    [] OTHER -> "COMPANY_NOT_FOUND"

\* C25 (as claimed): an update or delete of staff, products or companies whose
\* id matches no row answers 404 with the resource's not-found code, not a
\* 400 database-error code.
C25_MissingRowIs404 ==
  (/\ pc = "done" /\ req.route \in UpdatingRoutes /\ Ran("db")
   /\ req.input.target \notin DOMAIN TableOf(req.route))
  => res.status = 404 /\ res.code = NotFoundCode(req.route)

\* C27 (as claimed): GET /companies answers an accepted identity that is not
\* super_admin with 200 and exactly its own active company, or with 200 and
\* an empty list when it has no company.
C27_CompaniesListedByOwnCompany ==
  (/\ pc = "done" /\ req.route = "GET /companies" /\ env = "ok"
   /\ req.user # NoUser /\ req.user.role # "super_admin"
   /\ req.user.id \in DOMAIN users)
  => /\ res.status = 200
     /\ res.rows = { r \in Active(companies, CompanyRows) :
                       r.id = Holder.company_id }

SuperAdminOnlyRoutes ==
  { r \in RoleCheckedRoutes : RequiredRoles(r) = {"super_admin"} }

\* C29: POST /auth/register runs without any authentication middleware and,
\* when it answers 201, has stored the role of the body unchanged (cashier
\* when the body has none) and issued a token with the stored row's id and
\* role; a token so obtained with role super_admin passes
\* requireRole(['super_admin']) on every super_admin-only route.
C29_RegisterStoresSuppliedRole ==
  /\ (RegisterDone /\ res.status = 201)
     => /\ trace[1] = "handler" /\ ~Ran("authenticateToken") /\ ~Ran("requireRole")
        /\ req.header = <<>>
        /\ res.user = Len(users)
        /\ users[res.user].role =
             (IF req.input.role = "" THEN "cashier" ELSE req.input.role)
        /\ res.token.payload.role = users[res.user].role
        /\ res.token.payload.id = res.user
        /\ jwtVerifyError(res.token, now) = ""
        /\ (req.input.role = "super_admin"
            => \A r \in SuperAdminOnlyRoutes :
                 requireRoleOutcome(DecodedUser(res.token.payload),
                                    RequiredRoles(r)).next)
  /\ (/\ PastGate /\ req.route \in SuperAdminOnlyRoutes
      /\ req.user.id \in DOMAIN users \ DOMAIN SeedUsers
      /\ req.user.role = "super_admin"
      /\ pc \in {"handler", "done"})
     => trace[4] = "next"

\* A caller that registered as super_admin without credentials was then
\* served the list of all companies, a super_admin-only route.
C29_Witness ==
  /\ pc = "done" /\ req.route = "GET /companies"
  /\ req.user.id \in DOMAIN users \ DOMAIN SeedUsers
  /\ users[req.user.id].role = "super_admin"
  /\ req.user.role = "super_admin"
  /\ Ran("handler") /\ res.status = 200

C21_InitializedAtMostOnce ==
  initialization.runs <= 1 /\ initialization.created <= 1

\* All callers are inside a call at once, one still awaiting the promise and
\* one in a repeated call, and the initialisation ran once.
C21_Witness ==
  /\ initialization.runs = 1
  /\ \A c \in Callers : callers[c].pc # "idle"
  /\ \E c \in Callers : callers[c].pc = "awaiting"
  /\ \E c \in Callers : callers[c].calls = MaxCalls

\* C22 (as claimed): no getSupabaseClient call returns a handle while the
\* connection test or the demo-data seeding of initializeSupabase is still
\* running; a call made meanwhile awaits the initialisation.
C22_NoHandleBeforeInitialized ==
  \A c \in Callers :
    /\ callers[c].pc = "returned" => ~callers[c].early
    /\ (callers[c].pc = "returned" /\ callers[c].handle = "client")
         => initialization.phase = "done"

\* C28: once initializeSupabase has resolved to null, no step runs it again
\* or changes the promise or the handle, and every call that returns from
\* then on returns null.
C28_FailureIsPermanent ==
  [][initialization.phase = "failed"
       => /\ initialization' = initialization
          /\ initializationPromise' = initializationPromise
          /\ supabase' = "null"
          /\ \A c \in Callers :
               (callers[c].pc # "returned" /\ callers'[c].pc = "returned")
                 => callers'[c].handle = "null"]_vars

\* A caller's second call, made after the initialisation had failed, has
\* returned null.
C28_Witness ==
  /\ initialization.phase = "failed"
  /\ initialization.runs = 1
  /\ \E c \in Callers :
       /\ callers[c].calls = 2 /\ callers[c].pc = "returned"
       /\ callers[c].handle = "null"

\* The request whose stock update came right before that of `a` on the same
\* product, if any.
Preceding(a) ==
  { b \in Adjusters :
      /\ adjusts[b].turn > 0 /\ adjusts[b].turn < adjusts[a].turn
      /\ adjusts[b].product_id = adjusts[a].product_id
      /\ \A c \in Adjusters :
           (adjusts[c].product_id = adjusts[a].product_id
              /\ adjusts[c].turn < adjusts[a].turn)
           => adjusts[c].turn <= adjusts[b].turn }

\* C30 (as claimed): every movement row written by POST /inventory/adjust has
\* new_stock = previous_stock + quantity and previous_stock equal to the
\* product's stock right before that request's stock update, and so equal to
\* the new_stock of the movement of the preceding update of that product,
\* under every interleaving of concurrent adjust requests.
C30_MovementsFormAChain ==
  \A a \in Adjusters :
    adjusts[a].movement > 0 =>
      LET m == movements[adjusts[a].movement]
      IN  /\ m.new_stock = m.previous_stock + m.quantity
          /\ m.previous_stock = adjusts[a].before
          /\ \A b \in Preceding(a) :
               adjusts[b].movement > 0
                 => m.previous_stock = movements[adjusts[b].movement].new_stock

====
